---- MODULE Spec2Model ----
(***************************************************************************)
(* Organization planning, apply and undo engine of Smart Storage AI.       *)
(*                                                                         *)
(* Paths, folder names and file names are strings, built with \o exactly   *)
(* where the source builds them with template literals.  A FileNode is a   *)
(* record; an optional field that is undefined in the source holds "".     *)
(* The asynchronous operations of the stores are split at their awaits:    *)
(* the part up to the first await on IndexedDB is one step, the            *)
(* continuation is a second step taken when the request completes.  When   *)
(* the database was never opened the request is rejected in a microtask,   *)
(* so the whole operation is a single step.  A request made on an open     *)
(* database succeeds: persistence fails in the model when the database was *)
(* never opened.  Requests complete in the order they were made, and a     *)
(* request reads or writes the object store when it is made.               *)
(* Not modelled: the ids of plans, operations and entries, descriptions,   *)
(* createdAt, the selection and expansion flags of the file tree, the      *)
(* loading flag of the history store, and the chat messages.               *)
(***************************************************************************)
EXTENDS Integers, Sequences, FiniteSets, TLC

\* ------------------------------------------------------------------------
\* Bounds of the model
\* ------------------------------------------------------------------------
MaxBatches == 2
MaxPending == 1
MaxKeep == 2

\* init() is called from two places, each once, when its component mounts:
\* App.onMount and ChatPanel.onMount
InitCallSites == 2

\* ------------------------------------------------------------------------
\* Strings: the conversions the source applies to names and extensions
\* ------------------------------------------------------------------------

\* filename.split('.') for the file names of the model
SplitDot(name) ==
  CASE name = "photo.jpg"   -> <<"photo", "jpg">>
    [] name = "report.docx" -> <<"report", "docx">>
    [] name = "readme.md"   -> <<"readme", "md">>
    [] name = "clip.MP4"    -> <<"clip", "MP4">>
    [] name = ".bashrc"     -> <<"", "bashrc">>
    [] OTHER                -> <<name>>

toLowerCase(s) ==
  CASE s = "MP4" -> "mp4"
    [] s = "JPG" -> "jpg"
    [] OTHER     -> s

toUpperCase(s) ==
  CASE s = "jpg"    -> "JPG"
    [] s = "docx"   -> "DOCX"
    [] s = "md"     -> "MD"
    [] s = "mp4"    -> "MP4"
    [] s = "bashrc" -> "BASHRC"
    [] OTHER        -> s

getExtension(filename) ==
  LET parts == SplitDot(filename)
      n == Len(parts)
  IN  IF n = 1 \/ (n = 2 /\ parts[1] = "") THEN "" ELSE parts[n]

FILE_TYPE_MAP(ext) ==
  CASE ext \in {"doc", "docx", "txt", "rtf", "odt", "md", "tex"} -> "document"
    [] ext = "pdf" -> "pdf"
    [] ext \in {"jpg", "jpeg", "png", "gif"} -> "image"
    [] ext \in {"mp4", "avi", "mov", "webm"} -> "video"
    [] OTHER -> ""

getFileType(filename) ==
  LET t == FILE_TYPE_MAP(toLowerCase(getExtension(filename)))
  IN  IF t = "" THEN "other" ELSE t

FILE_TYPE_NAMES(fileType) ==
  CASE fileType = "document"     -> "Documents"
    [] fileType = "pdf"          -> "PDFs"
    [] fileType = "spreadsheet"  -> "Spreadsheets"
    [] fileType = "presentation" -> "Presentations"
    [] fileType = "image"        -> "Images"
    [] fileType = "video"        -> "Videos"
    [] fileType = "audio"        -> "Audio"
    [] fileType = "archive"      -> "Archives"
    [] fileType = "code"         -> "Code"
    [] OTHER                     -> "Other Files"

\* ------------------------------------------------------------------------
\* Demo data
\* ------------------------------------------------------------------------

\* a Date, as the three strings getDestinationByDate formats it into
Date(y, m, d) == [year |-> y, month |-> m, day |-> d]

createFile(name, parentPath, size, modifiedAt) ==
  [ name       |-> name,
    path       |-> IF parentPath # "" THEN parentPath \o "/" \o name
                                      ELSE "/" \o name,
    type       |-> "file",
    fileType   |-> getFileType(name),
    size       |-> size,
    modifiedAt |-> modifiedAt,
    extension  |-> (IF Len(SplitDot(name)) > 1
                      THEN SplitDot(name)[Len(SplitDot(name))] ELSE ""),
    children   |-> <<>> ]

RECURSIVE SumSizes(_)
SumSizes(nodes) ==
  IF nodes = <<>> THEN 0 ELSE Head(nodes).size + SumSizes(Tail(nodes))

createFolder(name, parentPath, children) ==
  [ name       |-> name,
    path       |-> IF parentPath # "" THEN parentPath \o "/" \o name
                                      ELSE "/" \o name,
    type       |-> "folder",
    fileType   |-> "",
    size       |-> SumSizes(children),
    modifiedAt |-> Date("", "", ""),
    extension  |-> "",
    children   |-> children ]

\* The demo tree, cut down to one file of each situation the demo data holds:
\* a file in a top-level folder, a file in a nested folder, a file that
\* already sits in the folder byType sends it to, a file without extension.
generateDemoFiles ==
  << createFolder("Downloads", "",
       << createFile("photo.jpg", "/Downloads", 3500000, Date("2024", "03", "15")) >>),
     createFolder("Documents", "",
       << createFolder("Work", "/Documents",
            << createFile("report.docx", "/Documents/Work", 2300000,
                          Date("2024", "03", "02")) >>),
          createFile("readme.md", "/Documents", 5600, Date("2023", "11", "20")) >>),
     createFolder("Desktop", "",
       << createFile("New folder", "/Desktop", 0, Date("2023", "11", "05")) >>) >>

\* ------------------------------------------------------------------------
\* Organizer
\* ------------------------------------------------------------------------
Rules == {"byType", "byDate", "bySize", "byExtension", "flatten", "custom"}

DEFAULT_SIZE_THRESHOLDS == [small |-> 1024 * 1024, medium |-> 100 * 1024 * 1024]

\* the null a resolver may return
NullFolder == "<null>"

\* JavaScript truthiness of a string | null
Falsy(s) == s = NullFolder \/ s = ""

getDestinationByType(file) ==
  FILE_TYPE_NAMES(IF file.fileType # "" THEN file.fileType
                                        ELSE getFileType(file.name))

getDestinationByDate(file, format) ==
  LET year  == file.modifiedAt.year
      month == file.modifiedAt.month
      day   == file.modifiedAt.day
  IN  CASE format = "year" -> year
        [] format = "year-month" -> year \o "/" \o year \o "-" \o month
        [] format = "year-month-day" ->
             year \o "/" \o year \o "-" \o month \o "/"
                  \o year \o "-" \o month \o "-" \o day
        [] OTHER -> year

\* buckets closed on the upper bound
BySizeClosed(file, thresholds) ==
  IF file.size <= thresholds.small THEN "Small (< 1 MB)"
  ELSE IF file.size <= thresholds.medium THEN "Medium (1-100 MB)"
  ELSE "Large (> 100 MB)"

getDestinationBySize(file, thresholds) ==
  IF file.size < thresholds.small THEN "Small (< 1 MB)"
  ELSE IF file.size < thresholds.medium THEN "Medium (1-100 MB)"
  ELSE "Large (> 100 MB)"

getDestinationByExtension(file) ==
  IF file.extension = "" THEN "No Extension" ELSE toUpperCase(file.extension)

\* customCategories: [defined |-> BOOLEAN, entries |-> sequence of
\* [category, extensions]] in Object.entries order
RECURSIVE FirstCategory(_, _)
FirstCategory(entries, ext) ==
  IF entries = <<>> THEN "Uncategorized"
  ELSE IF ext \in Head(entries).extensions THEN Head(entries).category
  ELSE FirstCategory(Tail(entries), ext)

getDestinationCustom(file, customCategories) ==
  IF ~customCategories.defined THEN NullFolder
  ELSE FirstCategory(customCategories.entries, toLowerCase(file.extension))

getDestinationFolder(file, config) ==
  CASE config.rule = "byType" -> getDestinationByType(file)
    [] config.rule = "byDate" ->
         getDestinationByDate(file, IF config.options.dateFormat # ""
                                      THEN config.options.dateFormat
                                      ELSE "year-month")
    [] config.rule = "bySize" ->
         getDestinationBySize(file, config.options.sizeThresholds)
    [] config.rule = "byExtension" -> getDestinationByExtension(file)
    [] config.rule = "flatten" -> ""
    [] config.rule = "custom" ->
         getDestinationCustom(file, config.options.customCategories)
    [] OTHER -> NullFolder

RECURSIVE flattenFileTree(_)
\* a traversal level by level: the nodes first, then what is below them
RECURSIVE flattenBreadthFirst(_)
flattenBreadthFirst(nodes) ==
  IF nodes = <<>> THEN <<>>
  ELSE LET Below[k \in 0..Len(nodes)] ==
             IF k = 0 THEN <<>> ELSE Below[k - 1] \o nodes[k].children
       IN  nodes \o flattenBreadthFirst(Below[Len(nodes)])

flattenFileTree(nodes) ==
  IF nodes = <<>> THEN <<>>
  ELSE <<Head(nodes)>> \o flattenFileTree(Head(nodes).children)
                       \o flattenFileTree(Tail(nodes))

\* the file node an operation keeps as sourceFile
SourceFile(file) == file

\* the destination path of line 43
DestinationPath(basePath, destinationFolder, file) ==
  basePath \o "/" \o destinationFolder \o "/" \o file.name

\* a planner that skips no file
NeverInPlace(file, destinationPath) == FALSE

\* line 46: the file is already in the correct location
AlreadyInPlace(file, destinationPath) == file.path = destinationPath

\* the loop of lines 37-58 over the flattened nodes
RECURSIVE PlanOperations(_, _, _)
PlanOperations(allFiles, config, basePath) ==
  IF allFiles = <<>> THEN <<>>
  ELSE
    LET file == Head(allFiles)
        rest == PlanOperations(Tail(allFiles), config, basePath)
        destinationFolder == getDestinationFolder(file, config)
        destinationPath == DestinationPath(basePath, destinationFolder, file)
    IN  IF file.type = "folder" THEN rest
        ELSE IF Falsy(destinationFolder) THEN rest
        ELSE IF AlreadyInPlace(file, destinationPath) THEN rest
        ELSE << [ sourceFile        |-> SourceFile(file),
                  sourcePath        |-> file.path,
                  destinationPath   |-> destinationPath,
                  destinationFolder |-> destinationFolder,
                  status            |-> "pending" ] >> \o rest

\* Array.from(new Set(...)) of the operations' destination folders:
\* first occurrences, insertion order
RECURSIVE Dedupe(_, _)
\* a deduplication that keeps the last occurrence of each folder
RECURSIVE DedupeKeepLast(_, _)
DedupeKeepLast(seq, seen) ==
  IF seq = <<>> THEN <<>>
  ELSE IF \E i \in 2..Len(seq) : seq[i] = Head(seq)
    THEN DedupeKeepLast(Tail(seq), seen)
  ELSE <<Head(seq)>> \o DedupeKeepLast(Tail(seq), seen)

Dedupe(seq, seen) ==
  IF seq = <<>> THEN <<>>
  ELSE IF Head(seq) \in seen THEN Dedupe(Tail(seq), seen)
  ELSE <<Head(seq)>> \o Dedupe(Tail(seq), seen \cup {Head(seq)})

generateOrganizationPlan(files, config, basePath) ==
  LET operations == PlanOperations(flattenFileTree(files), config, basePath)
  IN  [ name          |-> "Organize by " \o config.rule,
        rule          |-> config.rule,
        operations    |-> operations,
        status        |-> "preview",
        affectedFiles |-> Len(operations),
        newFolders    |-> Dedupe([i \in 1..Len(operations) |->
                                    operations[i].destinationFolder], {}) ]

\* statistics that count the folders of the plan, not its operations
StatsOfFolders(plan) ==
  [ totalFiles |-> Len(plan.newFolders),
    totalSize  |-> SumSizes([i \in 1..Len(plan.operations) |->
                               plan.operations[i].sourceFile]) ]

calculatePlanStats(plan) ==
  [ totalFiles |-> Len(plan.operations),
    totalSize  |-> SumSizes([i \in 1..Len(plan.operations) |->
                               plan.operations[i].sourceFile]) ]

\* ------------------------------------------------------------------------
\* State
\* ------------------------------------------------------------------------
VARIABLES
  files,                \* fileStore: the file tree signal
  currentPlan,          \* previewStore: <<>> for null, <<plan>> otherwise
  isPreviewVisible,     \* previewStore
  isApplying,           \* previewStore
  history,              \* historyStore: the in-memory ledger, newest first
  isDbInitialized,      \* historyStore
  db,                   \* db.ts: TRUE when the module variable db is not null
  store,                \* the IndexedDB history object store, keyed by id
  initCalls,            \* init() calls made so far
  opening,              \* init() calls waiting for indexedDB.open
  pending,              \* IndexedDB requests in flight, oldest first, each
                        \* with the continuation that awaits it
  nextBatchId,          \* generateId(), batches
  now,                  \* the clock new Date() reads
  awaitingConfirmation, \* chatStore
  isProcessing,         \* chatStore
  ret,                  \* what the last finished call returned or reported
  planBatches           \* history variable: how many batches were created
                        \* from the plan currentPlan holds

vars == << files, currentPlan, isPreviewVisible, isApplying, history,
           isDbInitialized, db, store, initCalls, opening, pending,
           nextBatchId, now, awaitingConfirmation, isProcessing, ret, planBatches >>

previewVars == << currentPlan, isPreviewVisible, isApplying, planBatches >>
historyVars == << history, isDbInitialized, nextBatchId, now >>
dbVars      == << db, store, initCalls, opening, pending >>
chatVars    == << awaitingConfirmation, isProcessing >>

Null == <<>>

\* The requests in flight that the stores' clients caused (save, update,
\* prune).  MaxPending bounds these; the getAll of init is bounded by the
\* number of init() calls.
InFlight(q) == Cardinality({i \in 1..Len(q) : q[i].kind # "load"})

\* What a finished call returned: the operation, the value, and two facts
\* about the call the claims speak of: `again`, the batch was already undone
\* when undoBatch was called; `saved`, the persistence call it made succeeded.
Result(op, val, again, saved) ==
  [op |-> op, val |-> val, again |-> again, saved |-> saved]

\* ------------------------------------------------------------------------
\* Persistence layer (db.ts)
\* ------------------------------------------------------------------------

\* store.put(batch): insert or replace by key
Put(s, batch) == {b \in s : b.id # batch.id} \cup {batch}

\* the cursor of getHistoryBatches: index 'timestamp', direction 'prev'
Newest(s) ==
  CHOOSE b \in s : \A c \in s :
    c.timestamp < b.timestamp \/ (c.timestamp = b.timestamp /\ c.id <= b.id)

RECURSIVE getHistoryBatches(_)
getHistoryBatches(s) ==
  IF s = {} THEN <<>>
  ELSE <<Newest(s)>> \o getHistoryBatches(s \ {Newest(s)})

\* ------------------------------------------------------------------------
\* File store
\* ------------------------------------------------------------------------
refreshFiles == generateDemoFiles

\* ------------------------------------------------------------------------
\* History store: pure parts
\* ------------------------------------------------------------------------
canUndo(h) == \E i \in 1..Len(h) : ~h[i].isUndone

\* h.find((batch) => !batch.isUndone) || null
lastBatch(h) ==
  IF canUndo(h)
    THEN << h[CHOOSE i \in 1..Len(h) :
                /\ ~h[i].isUndone
                /\ \A j \in 1..(i - 1) : h[j].isUndone] >>
    ELSE Null

\* an entry that swaps the paths of its operation
SwappedEntry(op, batchId) ==
  [ batchId         |-> batchId,
    operationType   |-> "move",
    sourcePath      |-> op.destinationPath,
    destinationPath |-> op.sourcePath,
    fileData        |-> [ name     |-> op.sourceFile.name,
                          size     |-> op.sourceFile.size,
                          fileType |-> op.sourceFile.fileType ],
    isUndone        |-> FALSE ]

NewEntry(op, batchId) ==
  [ batchId         |-> batchId,
    operationType   |-> "move",
    sourcePath      |-> op.sourcePath,
    destinationPath |-> op.destinationPath,
    fileData        |-> [ name     |-> op.sourceFile.name,
                          size     |-> op.sourceFile.size,
                          fileType |-> op.sourceFile.fileType ],
    isUndone        |-> FALSE ]

\* the batch addBatch builds from its parameters (lines 57-82)
NewBatch(id, name, operations, timestamp) ==
  [ id        |-> id,
    name      |-> name,
    entries   |-> [i \in 1..Len(operations) |-> NewEntry(operations[i], id)],
    timestamp |-> timestamp,
    isUndone  |-> FALSE ]

\* a ledger that grows at its end
AddToHistoryAtEnd(batch, prev) == prev \o <<batch>>

\* setHistory((prev) => [batch, ...prev])
AddToHistory(batch, prev) == <<batch>> \o prev

\* an undo that flags the batch and leaves its entries
MarkBatchOnly(batch) == [batch EXCEPT !.isUndone = TRUE]

MarkUndone(batch) ==
  [batch EXCEPT !.isUndone = TRUE,
                !.entries = [i \in 1..Len(batch.entries) |->
                               [batch.entries[i] EXCEPT !.isUndone = TRUE]]]

\* an undo that also flags every batch newer than the one it is given
UndoneWithNewer(h, batchId) ==
  [i \in 1..Len(h) |->
     IF \E j \in i..Len(h) : h[j].id = batchId THEN MarkUndone(h[i]) ELSE h[i]]

\* the map of undoBatch, lines 115-124
UpdatedHistory(h, batchId) ==
  [i \in 1..Len(h) |-> IF h[i].id = batchId THEN MarkUndone(h[i]) ELSE h[i]]

FindBatch(h, batchId) ==
  IF \E i \in 1..Len(h) : h[i].id = batchId
    THEN << h[CHOOSE i \in 1..Len(h) :
                /\ h[i].id = batchId
                /\ \A j \in 1..(i - 1) : h[j].id # batchId] >>
    ELSE Null

\* ------------------------------------------------------------------------
\* Preview store: pure parts
\* ------------------------------------------------------------------------
hasChanges == currentPlan # Null /\ Len(currentPlan[1].operations) > 0

PreviewConfig(rule) ==
  [ rule    |-> rule,
    options |-> [ dateFormat       |-> "year-month",
                  sizeThresholds   |-> [small |-> 1024 * 1024,
                                        medium |-> 100 * 1024 * 1024],
                  customCategories |-> [defined |-> FALSE, entries |-> <<>>] ] ]

\* an apply that marks the plan and not its operations
AppliedPlanOnly(plan) == [plan EXCEPT !.status = "applied"]

\* lines 94-101
AppliedPlan(plan) ==
  [plan EXCEPT !.status = "applied",
               !.operations = [i \in 1..Len(plan.operations) |->
                                 [plan.operations[i] EXCEPT !.status = "applied"]]]

\* the operations applyPlan hands to addBatch (line 109)
BatchOperations(plan) == plan.operations

\* The batches of the ledger that applyPlan created from the plan currentPlan
\* holds (lines 104-110): the planBatches newest ids.
BatchesOfCurrentPlan ==
  {i \in 1..Len(history) : history[i].id >= nextBatchId - planBatches}

\* folderPath.split('/').pop() for the folder names the rules produce
PopSegment(folderPath) ==
  IF \E y \in {"2023", "2024"}, m \in {"03", "11"} :
       folderPath = y \o "/" \o y \o "-" \o m
    THEN LET ym == CHOOSE p \in {<<y, m>> : y \in {"2023", "2024"}, m \in {"03", "11"}} :
                     folderPath = p[1] \o "/" \o p[1] \o "-" \o p[2]
         IN  ym[1] \o "-" \o ym[2]
    ELSE folderPath

\* a move that leaves the file's path as it was
MovedPathKeepsSource(op) == op.sourcePath

\* the path a moved file gets (line 156)
MovedPath(op) == op.destinationPath

RECURSIVE MovedInto(_, _)
MovedInto(operations, folderPath) ==
  IF operations = <<>> THEN <<>>
  ELSE IF Head(operations).destinationFolder = folderPath
    THEN << [Head(operations).sourceFile EXCEPT !.path = MovedPath(Head(operations))] >>
           \o MovedInto(Tail(operations), folderPath)
    ELSE MovedInto(Tail(operations), folderPath)

\* the tree simulateFileReorganization hands to fileStore.setFiles
simulateFileReorganization(plan) ==
  [ i \in 1..Len(plan.newFolders) |->
      LET folderPath == plan.newFolders[i]
          moved == MovedInto(plan.operations, folderPath)
      IN  [ name       |-> IF PopSegment(folderPath) # "" THEN PopSegment(folderPath)
                                                          ELSE folderPath,
            path       |-> "/" \o folderPath,
            type       |-> "folder",
            fileType   |-> "",
            size       |-> SumSizes(moved),
            modifiedAt |-> Date("", "", ""),
            extension  |-> "",
            children   |-> moved ] ]

\* ------------------------------------------------------------------------
\* Initial state: the stores right after module load, before App mounts
\* ------------------------------------------------------------------------
Init ==
  /\ files = generateDemoFiles
  /\ currentPlan = Null
  /\ isPreviewVisible = FALSE
  /\ isApplying = FALSE
  /\ history = <<>>
  /\ isDbInitialized = FALSE
  /\ db = FALSE
  /\ store = {}
  /\ initCalls = 0
  /\ opening = 0
  /\ pending = <<>>
  /\ nextBatchId = 1
  /\ now = 1
  /\ awaitingConfirmation = FALSE
  /\ isProcessing = FALSE
  /\ ret = Result("none", FALSE, FALSE, FALSE)
  /\ planBatches = 0

\* ------------------------------------------------------------------------
\* Preview store operations
\* ------------------------------------------------------------------------

\* a generatePreview that keeps the plan the store already holds next to
\* the new one
KeepLivePlan(rule) ==
  /\ currentPlan' = << generateOrganizationPlan(files, PreviewConfig(rule), "") >>
                      \o currentPlan
  /\ isPreviewVisible' = TRUE
  /\ planBatches' = 0

\* generatePreview(rule), lines 51-78
DoGeneratePreview(rule) ==
  /\ currentPlan' = << generateOrganizationPlan(files, PreviewConfig(rule), "") >>
  /\ isPreviewVisible' = TRUE
  /\ planBatches' = 0

\* cancelPreview(), lines 170-173
DoCancelPreview ==
  /\ currentPlan' = Null
  /\ isPreviewVisible' = FALSE
  /\ planBatches' = 0

\* What the caller of applyPlan does once it has returned:
\* handleApplyIntent clears the confirmation state (chat.ts lines 190-191) and
\* sendMessage's finally clears isProcessing.
AfterCall(caller) ==
  IF caller = "chat"
    THEN /\ awaitingConfirmation' = FALSE
         /\ isProcessing' = FALSE
    ELSE UNCHANGED chatVars

AfterUndoCall(caller) ==
  IF caller = "chat"
    THEN /\ isProcessing' = FALSE
         /\ UNCHANGED awaitingConfirmation
    ELSE UNCHANGED chatVars

WhileCall(caller) ==
  IF caller = "chat"
    THEN /\ isProcessing' = TRUE
         /\ UNCHANGED awaitingConfirmation
    ELSE UNCHANGED chatVars

\* applyPlan(), lines 83-123, with the addBatch it awaits (history.ts 52-95).
\* Up to `await database.history.save(batch)` everything is synchronous.
DoApplyPlan(caller) ==
  IF currentPlan = Null
    THEN /\ ret' = Result("applyPlan", FALSE, FALSE, FALSE)
         /\ AfterCall(caller)
         /\ UNCHANGED << files, previewVars, historyVars, dbVars >>
    ELSE
      LET plan  == currentPlan[1]
          batch == NewBatch(nextBatchId, plan.name, BatchOperations(plan), now)
      IN  /\ nextBatchId <= MaxBatches
          /\ currentPlan' = << AppliedPlan(plan) >>
          /\ history' = AddToHistory(batch, history)
          /\ nextBatchId' = nextBatchId + 1
          /\ now' = now + 1
          /\ planBatches' = planBatches + 1
          /\ UNCHANGED << isPreviewVisible, isDbInitialized,
                          db, initCalls, opening >>
          /\ IF ~db
               THEN \* getDb() throws, addBatch logs it, applyPlan goes on
                    /\ files' = simulateFileReorganization(plan)
                    /\ isApplying' = FALSE
                    /\ ret' = Result("applyPlan", TRUE, FALSE, FALSE)
                    /\ AfterCall(caller)
                    /\ UNCHANGED << store, pending >>
               ELSE /\ InFlight(pending) < MaxPending
                    /\ store' = Put(store, batch)
                    /\ pending' = Append(pending,
                         [kind |-> "apply", data |-> <<plan>>, caller |-> caller,
                          again |-> FALSE])
                    /\ isApplying' = TRUE
                    /\ WhileCall(caller)
                    /\ UNCHANGED << files, ret >>

\* ------------------------------------------------------------------------
\* History store operations
\* ------------------------------------------------------------------------

\* undoBatch(batchId), lines 110-146
DoUndoBatch(batchId, caller) ==
  LET updatedHistory == UpdatedHistory(history, batchId)
      batch == FindBatch(updatedHistory, batchId)
      again == FindBatch(history, batchId) # Null /\ FindBatch(history, batchId)[1].isUndone
  IN  /\ history' = updatedHistory
      /\ UNCHANGED << previewVars, isDbInitialized, nextBatchId, now,
                      db, initCalls, opening >>
      /\ IF batch = Null
           THEN \* nothing to persist: refresh and report success
                /\ files' = refreshFiles
                /\ ret' = Result("undoBatch", TRUE, FALSE, FALSE)
                /\ AfterUndoCall(caller)
                /\ UNCHANGED << store, pending >>
           ELSE IF ~db
           THEN \* update() is rejected: the catch of line 140 returns false
                /\ ret' = Result("undoBatch", FALSE, again, FALSE)
                /\ AfterUndoCall(caller)
                /\ UNCHANGED << files, store, pending >>
           ELSE /\ InFlight(pending) < MaxPending
                /\ store' = Put(store, batch[1])
                /\ pending' = Append(pending,
                     [kind |-> "undo", data |-> <<>>, caller |-> caller,
                      again |-> again])
                /\ WhileCall(caller)
                /\ UNCHANGED << files, ret >>

\* an undoLast that takes the newest batch, undone or not
UndoNewest(caller) ==
  IF history = <<>>
    THEN /\ ret' = Result("undoLast", FALSE, FALSE, FALSE)
         /\ AfterUndoCall(caller)
         /\ UNCHANGED << files, previewVars, historyVars, dbVars >>
    ELSE DoUndoBatch(history[1].id, caller)

\* undoLast(), lines 100-105
DoUndoLast(caller) ==
  IF lastBatch(history) = Null
    THEN /\ ret' = Result("undoLast", FALSE, FALSE, FALSE)
         /\ AfterUndoCall(caller)
         /\ UNCHANGED << files, previewVars, historyVars, dbVars >>
    ELSE DoUndoBatch(lastBatch(history)[1].id, caller)

\* init(), lines 33-47: the call, up to `await initDatabase()`
HistoryInit ==
  /\ initCalls < InitCallSites
  /\ initCalls' = initCalls + 1
  /\ opening' = IF isDbInitialized THEN opening ELSE opening + 1
  /\ UNCHANGED << files, previewVars, historyVars, db, store, pending, chatVars, ret >>

\* indexedDB.open succeeds (db.ts lines 29-32): init goes on to getAll, whose
\* cursor reads the store as it is when the request is made
InitDatabaseOpened ==
  /\ opening > 0
  /\ opening' = opening - 1
  /\ db' = TRUE
  /\ pending' = Append(pending,
       [kind |-> "load", data |-> getHistoryBatches(store), caller |-> "app",
        again |-> FALSE])
  /\ UNCHANGED << files, previewVars, historyVars, store, initCalls, chatVars, ret >>

\* indexedDB.open fails (db.ts line 28): init logs it and gives up
InitDatabaseFailed ==
  /\ opening > 0
  /\ opening' = opening - 1
  /\ UNCHANGED << files, previewVars, historyVars, db, store, initCalls, pending,
                  chatVars, ret >>

\* ------------------------------------------------------------------------
\* Completion of the oldest IndexedDB request: the continuation of the
\* operation that awaits it
\* ------------------------------------------------------------------------

\* applyPlan after `await historyStore.addBatch` (lines 112-122)
ApplyPlanDone ==
  /\ pending # <<>>
  /\ Head(pending).kind = "apply"
  /\ pending' = Tail(pending)
  /\ files' = simulateFileReorganization(Head(pending).data[1])
  /\ isApplying' = FALSE
  /\ ret' = Result("applyPlan", TRUE, FALSE, TRUE)
  /\ AfterCall(Head(pending).caller)
  /\ UNCHANGED << currentPlan, isPreviewVisible, planBatches, historyVars, db,
                  store, initCalls, opening >>

\* undoBatch after `await database.history.update` (lines 134-145)
UndoBatchDone ==
  /\ pending # <<>>
  /\ Head(pending).kind = "undo"
  /\ pending' = Tail(pending)
  /\ files' = refreshFiles
  /\ ret' = Result("undoBatch", TRUE, Head(pending).again, TRUE)
  /\ AfterUndoCall(Head(pending).caller)
  /\ UNCHANGED << previewVars, historyVars, db, store, initCalls, opening >>

\* init after `await database.history.getAll()` (lines 40-46)
InitLoaded ==
  /\ pending # <<>>
  /\ Head(pending).kind = "load"
  /\ pending' = Tail(pending)
  /\ history' = Head(pending).data
  /\ isDbInitialized' = TRUE
  /\ UNCHANGED << files, previewVars, nextBatchId, now, db, store, initCalls,
                  opening, chatVars, ret >>

\* ------------------------------------------------------------------------
\* Pruning: database.history.prune (db.ts 142-168) and clearHistory
\* (history.ts 151-159)
\* ------------------------------------------------------------------------

\* batches.slice(0, keepCount): what pruneHistory leaves of the batches it read
Keep(batches, keepCount) ==
  SubSeq(batches, 1, IF Len(batches) < keepCount THEN Len(batches) ELSE keepCount)

\* batches.slice(keepCount)
ToDelete(batches, keepCount) ==
  SubSeq(batches, (IF Len(batches) < keepCount THEN Len(batches) ELSE keepCount) + 1,
         Len(batches))

\* store.delete(batch.id) for every batch of toDelete (lines 157-164)
Delete(s, toDelete) ==
  {b \in s : \A i \in 1..Len(toDelete) : toDelete[i].id # b.id}

\* pruneHistory(keepCount) up to `await getHistoryBatches()`.  `caller` is
\* "prune" for a call of database.history.prune and "clearHistory" for the
\* call clearHistory makes; `before` is the in-memory ledger the caller saw.
DoPruneHistory(keepCount, caller, before) ==
  IF ~db
    THEN \* getDb() throws: the promise is rejected (clearHistory logs it)
         /\ ret' = Result(caller, FALSE, FALSE, FALSE)
         /\ UNCHANGED << store, pending >>
    ELSE /\ InFlight(pending) < MaxPending
         /\ pending' = Append(pending,
              [kind |-> "pruneLoad",
               data |-> [keepCount |-> keepCount,
                         batches   |-> getHistoryBatches(store),
                         before    |-> before],
               caller |-> caller, again |-> FALSE])
         /\ UNCHANGED << store, ret >>

\* database.history.prune(keepCount), called by a client of db.ts
PruneHistory ==
  \E keepCount \in 0..MaxKeep :
    /\ DoPruneHistory(keepCount, "prune", history)
    /\ UNCHANGED << files, previewVars, historyVars, db, initCalls, opening, chatVars >>

\* clearHistory(), history.ts lines 151-159
ClearHistory ==
  /\ history' = <<>>
  /\ DoPruneHistory(0, "clearHistory", history)
  /\ UNCHANGED << files, previewVars, isDbInitialized, nextBatchId, now,
                  db, initCalls, opening, chatVars >>

\* pruneHistory after `await getHistoryBatches()` (lines 145-166): return if
\* there is nothing to delete, else request the deletions
PruneLoaded ==
  /\ pending # <<>>
  /\ Head(pending).kind = "pruneLoad"
  /\ LET keepCount == Head(pending).data.keepCount
         batches   == Head(pending).data.batches
     IN  IF Len(batches) <= keepCount
           THEN /\ pending' = Tail(pending)
                /\ ret' = Result(Head(pending).caller, TRUE, FALSE, TRUE)
                /\ UNCHANGED store
           ELSE /\ store' = Delete(store, ToDelete(batches, keepCount))
                /\ pending' = Append(Tail(pending),
                     [Head(pending) EXCEPT !.kind = "pruneDelete"])
                /\ UNCHANGED ret
  /\ UNCHANGED << files, previewVars, historyVars, db, initCalls, opening, chatVars >>

\* the last delete request succeeded (lines 160-163)
PruneDone ==
  /\ pending # <<>>
  /\ Head(pending).kind = "pruneDelete"
  /\ pending' = Tail(pending)
  /\ ret' = Result(Head(pending).caller, TRUE, FALSE, TRUE)
  /\ UNCHANGED << files, previewVars, historyVars, db, store, initCalls, opening,
                  chatVars >>

\* ------------------------------------------------------------------------
\* The stores' operations, called by any client of the exported stores
\* ------------------------------------------------------------------------
\* The specifications of the stores draw generatePreview's rule from one
\* rule, which moves files, skips one already in place, and yields an empty
\* plan on the tree it produced.  SpecPlan below draws from all of Rules.
PreviewRules == {"byType"}

GeneratePreview ==
  \E rule \in PreviewRules :
    /\ DoGeneratePreview(rule)
    /\ UNCHANGED << files, isApplying, historyVars, dbVars, chatVars, ret >>

ApplyPlan == DoApplyPlan("api")

CancelPreview ==
  /\ DoCancelPreview
  /\ UNCHANGED << files, isApplying, historyVars, dbVars, chatVars, ret >>

\* fileStore.refreshFiles(), files.ts lines 217-221
RefreshFiles ==
  /\ files' = refreshFiles
  /\ UNCHANGED << previewVars, historyVars, dbVars, chatVars, ret >>

\* resetPreview(), lines 193-196
ResetPreview ==
  /\ files' = refreshFiles
  /\ DoCancelPreview
  /\ UNCHANGED << isApplying, historyVars, dbVars, chatVars, ret >>

UndoLast == DoUndoLast("api")

UndoBatch == \E batchId \in 1..MaxBatches : DoUndoBatch(batchId, "api")

\* ------------------------------------------------------------------------
\* The user interface: chat intents (chat.ts) and the preview panel's buttons
\* ------------------------------------------------------------------------
\* parseIntent offers byType, byDate, bySize and byExtension; the model draws
\* from two of them
ChatRules == {"byType", "bySize"}

\* handleOrganizeIntent, lines 130-163
HandleOrganizeIntent ==
  \E rule \in ChatRules :
    /\ ~isProcessing
    /\ DoGeneratePreview(rule)
    /\ IF Len(currentPlan'[1].operations) = 0
         THEN UNCHANGED awaitingConfirmation
         ELSE awaitingConfirmation' = TRUE
    /\ UNCHANGED << files, isApplying, historyVars, dbVars, isProcessing, ret >>

\* handleApplyIntent, lines 168-192
HandleApplyIntent ==
  /\ ~isProcessing
  /\ IF ~hasChanges
       THEN UNCHANGED vars
       ELSE DoApplyPlan("chat")

\* handleCancelIntent, lines 197-210
HandleCancelIntent ==
  /\ ~isProcessing
  /\ IF awaitingConfirmation
       THEN /\ DoCancelPreview
            /\ awaitingConfirmation' = FALSE
            /\ UNCHANGED << files, isApplying, historyVars, dbVars,
                            isProcessing, ret >>
       ELSE UNCHANGED vars

\* handleUndoIntent, lines 215-244
HandleUndoIntent ==
  /\ ~isProcessing
  /\ IF ~canUndo(history)
       THEN UNCHANGED vars
       ELSE DoUndoLast("chat")

\* the Apply and Cancel buttons are rendered only for a plan in preview and
\* are disabled while applying (PreviewPanel lines 111-131)
PanelButtons ==
  /\ isPreviewVisible
  /\ currentPlan # Null
  /\ currentPlan[1].status = "preview"
  /\ ~isApplying

PanelApply == PanelButtons /\ DoApplyPlan("panel")

PanelCancel ==
  /\ PanelButtons
  /\ DoCancelPreview
  /\ UNCHANGED << files, isApplying, historyVars, dbVars, chatVars, ret >>

\* the Undo button is rendered when canUndo (PreviewPanel lines 53-61)
PanelUndo == canUndo(history) /\ DoUndoLast("panel")

\* ------------------------------------------------------------------------
\* Specifications
\* ------------------------------------------------------------------------
Completions ==
  \/ InitDatabaseOpened
  \/ InitDatabaseFailed
  \/ ApplyPlanDone
  \/ UndoBatchDone
  \/ InitLoaded

\* every client of the exported stores
Next ==
  \/ GeneratePreview
  \/ ApplyPlan
  \/ CancelPreview
  \/ RefreshFiles
  \/ ResetPreview
  \/ UndoLast
  \/ UndoBatch
  \/ HistoryInit
  \/ Completions

Spec == Init /\ [][Next]_vars

\* the application as shipped: only what its components call
NextUI ==
  \/ HandleOrganizeIntent
  \/ HandleApplyIntent
  \/ HandleCancelIntent
  \/ HandleUndoIntent
  \/ PanelApply
  \/ PanelCancel
  \/ PanelUndo
  \/ RefreshFiles
  \/ HistoryInit
  \/ Completions

SpecUI == Init /\ [][NextUI]_vars

\* ------------------------------------------------------------------------
\* The planner on arbitrary snapshots: the file index provider may hand the
\* preview store any tree (fileStore.setFiles), every rule may be asked for,
\* and the database is never opened
\* ------------------------------------------------------------------------
D1 == Date("2024", "03", "15")
D2 == Date("2023", "11", "20")

Snapshots ==
  { generateDemoFiles,
    <<>>,
    \* two files of the same name in different folders, one file at the root
    << createFolder("A", "", << createFile("photo.jpg", "/A", 1048576, D1) >>),
       createFolder("B", "", << createFile("photo.jpg", "/B", 1048575, D2) >>),
       createFile("clip.MP4", "", 104857600, D1) >>,
    \* a tree already organized by type, and a dotfile
    << createFolder("Images", "", << createFile("photo.jpg", "/Images", 3500000, D1) >>),
       createFolder("Documents", "",
         << createFile("report.docx", "/Documents", 104857599, D2),
            createFile(".bashrc", "/Documents", 0, D2) >>) >>,
    \* a tree already organized by size
    << createFolder("Small (< 1 MB)", "",
         << createFile("readme.md", "/Small (< 1 MB)", 5600, D2) >>),
       createFolder("Medium (1-100 MB)", "",
         << createFile("photo.jpg", "/Medium (1-100 MB)", 3500000, D1) >>) >> }

InitPlan ==
  /\ files \in Snapshots
  /\ currentPlan = Null
  /\ isPreviewVisible = FALSE
  /\ isApplying = FALSE
  /\ history = <<>>
  /\ isDbInitialized = FALSE
  /\ db = FALSE
  /\ store = {}
  /\ initCalls = 0
  /\ opening = 0
  /\ pending = <<>>
  /\ nextBatchId = 1
  /\ now = 1
  /\ awaitingConfirmation = FALSE
  /\ isProcessing = FALSE
  /\ ret = Result("none", FALSE, FALSE, FALSE)
  /\ planBatches = 0

GenerateAnyPreview ==
  \E rule \in Rules :
    /\ DoGeneratePreview(rule)
    /\ UNCHANGED << files, isApplying, historyVars, dbVars, chatVars, ret >>

\* a rule that is none of OrganizationRule, which nothing checks at run time
InvalidRule == "byName"

GenerateInvalidPreview ==
  /\ DoGeneratePreview(InvalidRule)
  /\ UNCHANGED << files, isApplying, historyVars, dbVars, chatVars, ret >>

NextPlan ==
  \/ GenerateAnyPreview
  \/ GenerateInvalidPreview
  \/ ApplyPlan
  \/ CancelPreview

SpecPlan == InitPlan /\ [][NextPlan]_vars

\* ------------------------------------------------------------------------
\* The ledger with pruning: the history store's operations, applyPlan as the
\* caller of addBatch, and the persistence layer's prune
\* ------------------------------------------------------------------------
PruneRules == {"byType"}

GeneratePrunePreview ==
  \E rule \in PruneRules :
    /\ DoGeneratePreview(rule)
    /\ UNCHANGED << files, isApplying, historyVars, dbVars, chatVars, ret >>

NextPrune ==
  \/ GeneratePrunePreview
  \/ ApplyPlan
  \/ UndoLast
  \/ HistoryInit
  \/ Completions
  \/ PruneHistory
  \/ ClearHistory
  \/ PruneLoaded
  \/ PruneDone

SpecPrune == Init /\ [][NextPrune]_vars

\* ------------------------------------------------------------------------
\* Claims
\* ------------------------------------------------------------------------

\* C1 (idempotence): whenever the current plan has been applied, so that the
\* file tree is the one applyPlan built from it, planning the same rule again
\* on that tree (what generatePreview would do next) yields zero operations.
C1_ReplanAfterApplyIsEmpty ==
  (currentPlan # Null /\ currentPlan[1].status = "applied"
     /\ files = simulateFileReorganization(currentPlan[1]))
  => generateOrganizationPlan(files, PreviewConfig(currentPlan[1].rule), "").operations
       = <<>>

\* a plan that moved at least two files into at least two folders has been
\* applied
C1_Witness ==
  /\ currentPlan # Null
  /\ currentPlan[1].status = "applied"
  /\ Len(currentPlan[1].operations) >= 2
  /\ Len(currentPlan[1].newFolders) >= 2
  /\ files = simulateFileReorganization(currentPlan[1])
  /\ ret = Result("applyPlan", TRUE, FALSE, FALSE)

\* C2 (undo round-trip, second half): an undoBatch call on a batch that was
\* already undone when it was called returns false.
C2_SecondUndoReturnsFalse ==
  (ret.op = "undoBatch" /\ ret.again) => ret.val = FALSE

\* C3 (batch 1:1 with plan): the ledger holds at most one batch created from
\* the plan the preview store holds.
C3_OneBatchPerPlan == Cardinality(BatchesOfCurrentPlan) <= 1

\* C4 (plan status): once an undo of a batch has been persisted and has
\* returned true, and a batch created from the current plan is undone, the
\* plan's status is `undone`.
C4_UndoneBatchUndonePlan ==
  \A i \in BatchesOfCurrentPlan :
    (history[i].isUndone /\ ret = Result("undoBatch", TRUE, FALSE, TRUE))
      => currentPlan[1].status = "undone"

\* C5 (LIFO undoLast): a step of undoLast taken while some batch is not
\* undone marks undone the batch with the latest timestamp among the batches
\* not undone, and leaves every other batch of the ledger as it was.
C5_UndoLastIsLIFO ==
  [][ (canUndo(history) /\ DoUndoLast("api")) =>
        LET newest == CHOOSE i \in 1..Len(history) :
                        /\ ~history[i].isUndone
                        /\ \A j \in 1..Len(history) :
                             ~history[j].isUndone =>
                               history[j].timestamp <= history[i].timestamp
        IN  history' = [history EXCEPT ![newest] = MarkUndone(history[newest])]
    ]_vars

\* of two batches the newer one has been undone by a finished undo and the
\* older one is untouched
C5_Witness ==
  /\ Len(history) = 2
  /\ history[1].timestamp > history[2].timestamp
  /\ history[1].isUndone
  /\ ~history[2].isUndone
  /\ ret.op = "undoBatch"
  /\ ret.val

\* C6 (no-op elision): no operation of the current plan has equal source and
\* destination paths, and while the plan is a preview of the file tree no
\* file of the tree that sits at its computed destination is the source of
\* an operation.
C6_NoOpElision ==
  currentPlan # Null =>
    LET plan     == currentPlan[1]
        config   == PreviewConfig(plan.rule)
        allFiles == flattenFileTree(files)
    IN  /\ \A i \in 1..Len(plan.operations) :
             plan.operations[i].sourcePath # plan.operations[i].destinationPath
        /\ plan.status = "preview" =>
             \A k \in 1..Len(allFiles) :
               (/\ allFiles[k].type = "file"
                /\ allFiles[k].path =
                     DestinationPath("", getDestinationFolder(allFiles[k], config),
                                     allFiles[k]))
               => \A i \in 1..Len(plan.operations) :
                    plan.operations[i].sourceFile # allFiles[k]

\* a preview that moves some file of a tree in which another file, which the
\* rule has a folder for, sits at its destination
C6_Witness ==
  /\ currentPlan # Null
  /\ currentPlan[1].status = "preview"
  /\ Len(currentPlan[1].operations) >= 1
  /\ \E k \in 1..Len(flattenFileTree(files)) :
       LET file == flattenFileTree(files)[k]
           destinationFolder ==
             getDestinationFolder(file, PreviewConfig(currentPlan[1].rule))
       IN  /\ file.type = "file"
           /\ ~Falsy(destinationFolder)
           /\ file.path = DestinationPath("", destinationFolder, file)

\* C7 (cancel only in preview): a step taken while the current plan is
\* applied does not discard the plan, and a step that discards a plan in
\* preview leaves the ledger, in memory and persisted, unchanged.  The user
\* interface discards a plan through cancelPreview only.
C7_CancelOnlyInPreview ==
  [][ /\ (currentPlan # Null /\ currentPlan[1].status = "applied")
          => currentPlan' # Null
      /\ (currentPlan # Null /\ currentPlan[1].status = "preview"
            /\ currentPlan' = Null)
          => (history' = history /\ store' = store)
    ]_vars

\* C8 (batch only on success): every batch of the ledger has at least one
\* entry.
C8_NoEmptyBatch ==
  \A i \in 1..Len(history) : history[i].entries # <<>>

C10_UndoIgnoresPersistenceFailure ==
  (ret.op = "undoBatch" /\ ~ret.saved) => (ret.val /\ files = refreshFiles)

\* C11 (prune): the step on which a prune(keepCount) finishes leaves in the
\* in-memory ledger exactly the keepCount most recent batches of the ledger
\* the caller saw (all of them if there are no more than keepCount), each as
\* it was, and leaves in the persisted store exactly the keepCount most
\* recent batches of the batches it read.
C11_PruneKeepsMostRecent ==
  [][ (/\ pending # <<>>
       /\ pending' = Tail(pending)
       /\ Head(pending).kind \in {"pruneLoad", "pruneDelete"})
      => LET keepCount == Head(pending).data.keepCount
             kept      == Keep(Head(pending).data.batches, keepCount)
         IN  /\ history' = Keep(Head(pending).data.before, keepCount)
             /\ store' = {kept[i] : i \in 1..Len(kept)}
    ]_vars

\* C12 (entries follow their batch): in the in-memory ledger and in the
\* persisted store, every entry's isUndone equals the isUndone of the batch
\* that holds it.
C12_EntriesFollowBatch ==
  /\ \A i \in 1..Len(history) : \A j \in 1..Len(history[i].entries) :
       history[i].entries[j].isUndone = history[i].isUndone
  /\ \A b \in store : \A j \in 1..Len(b.entries) :
       b.entries[j].isUndone = b.isUndone

\* the ledger holds an undone batch of several entries and a batch not
\* undone, and the undone one is persisted
C12_Witness ==
  /\ \E i \in 1..Len(history) :
       history[i].isUndone /\ Len(history[i].entries) >= 2 /\ history[i] \in store
  /\ \E i \in 1..Len(history) :
       ~history[i].isUndone /\ Len(history[i].entries) >= 2

\* C13 (undo is one-way): a batch that is undone in the in-memory ledger is
\* undone in the ledger of the next state if it is still there, and the same
\* holds of the persisted store.
C13_UndoIsOneWay ==
  [][ /\ \A i \in 1..Len(history) : \A j \in 1..Len(history') :
           (history[i].id = history'[j].id /\ history[i].isUndone)
             => history'[j].isUndone
      /\ \A b \in store : \A c \in store' :
           (b.id = c.id /\ b.isUndone) => c.isUndone
    ]_vars

\* C14 (one live plan): right after a generatePreview step the preview store
\* holds exactly one plan, shown, in status `preview`, whose operations are
\* all pending and move files of the present tree, and no batch of the
\* ledger was created from it: the plan held before, in preview or applied,
\* is gone.
C14_OneLivePlan ==
  [][ GeneratePreview =>
        /\ Len(currentPlan') = 1
        /\ isPreviewVisible'
        /\ currentPlan'[1].status = "preview"
        /\ \A i \in 1..Len(currentPlan'[1].operations) :
             /\ currentPlan'[1].operations[i].status = "pending"
             /\ \E k \in 1..Len(flattenFileTree(files)) :
                  flattenFileTree(files)[k] = currentPlan'[1].operations[i].sourceFile
        /\ BatchesOfCurrentPlan' = {}
    ]_vars

\* a plan in preview is held while the ledger holds the batch of the plan
\* that was applied before it
C14_Witness ==
  /\ currentPlan # Null
  /\ currentPlan[1].status = "preview"
  /\ Len(history) >= 1
  /\ BatchesOfCurrentPlan = {}
  /\ files # generateDemoFiles

\* C15 (addBatch): a step on which addBatch runs (applyPlan calls it with the
\* current plan's operations) puts one new batch at the head of the
\* in-memory ledger, ahead of the batches that were there, unchanged; the new
\* batch is not undone, its id is the id of no batch of the ledger or of the
\* persisted store, and it has one entry per operation, in the operations'
\* order, with the operation's paths, not undone, carrying the batch's id.
C15_AddBatchContract ==
  [][ nextBatchId' # nextBatchId =>
        LET batch      == history'[1]
            operations == currentPlan[1].operations
        IN  /\ Len(history') = Len(history) + 1
            /\ Tail(history') = history
            /\ ~batch.isUndone
            /\ \A i \in 1..Len(history) : history[i].id # batch.id
            /\ \A b \in store : b.id # batch.id
            /\ Len(batch.entries) = Len(operations)
            /\ \A j \in 1..Len(operations) :
                 /\ batch.entries[j].sourcePath = operations[j].sourcePath
                 /\ batch.entries[j].destinationPath = operations[j].destinationPath
                 /\ ~batch.entries[j].isUndone
                 /\ batch.entries[j].batchId = batch.id
    ]_vars

\* the ledger holds two batches, the newer one first, the newer one with
\* several entries
C15_Witness ==
  /\ Len(history) = 2
  /\ history[1].id # history[2].id
  /\ history[1].timestamp > history[2].timestamp
  /\ Len(history[1].entries) >= 2
  /\ ~history[1].isUndone

\* C16 (undoLast with nothing to undo): an undoLast step taken when the
\* ledger is empty or holds only undone batches returns false and leaves the
\* in-memory ledger, the persisted store and the file tree as they were,
\* with no request made.
C16_UndoLastNothingToUndo ==
  [][ (/\ \A i \in 1..Len(history) : history[i].isUndone
       /\ DoUndoLast("api"))
      => /\ ret' = Result("undoLast", FALSE, FALSE, FALSE)
         /\ history' = history
         /\ store' = store
         /\ files' = files
         /\ pending' = pending
    ]_vars

\* undoLast has returned false on a ledger whose batches are all undone,
\* with the file tree and the plan left as the last apply made them
C16_Witness ==
  /\ ret = Result("undoLast", FALSE, FALSE, FALSE)
  /\ Len(history) >= 1
  /\ \A i \in 1..Len(history) : history[i].isUndone

\* C17 (flatten): a preview under the flatten rule has, for every file of the
\* tree that is not at the root, an operation that moves it with
\* destinationFolder "" to root + "/" + its name (the root is the base path
\* generatePreview plans with, "").
C17_FlattenMovesNestedFiles ==
  (currentPlan # Null /\ currentPlan[1].status = "preview"
     /\ currentPlan[1].rule = "flatten")
  => \A k \in 1..Len(flattenFileTree(files)) :
       LET file == flattenFileTree(files)[k]
       IN  (file.type = "file" /\ file.path # "/" \o file.name)
           => \E i \in 1..Len(currentPlan[1].operations) :
                /\ currentPlan[1].operations[i].sourceFile = file
                /\ currentPlan[1].operations[i].destinationFolder = ""
                /\ currentPlan[1].operations[i].destinationPath = "/" \o file.name

\* C18 (custom drops no file): in a preview under the custom rule the
\* resolver gives every file of the tree a folder, never null, and every
\* file that is not already at its destination is the source of an
\* operation.
C18_CustomDropsNoFile ==
  (currentPlan # Null /\ currentPlan[1].status = "preview"
     /\ currentPlan[1].rule = "custom")
  => \A k \in 1..Len(flattenFileTree(files)) :
       LET file == flattenFileTree(files)[k]
           destinationFolder == getDestinationFolder(file, PreviewConfig("custom"))
       IN  file.type = "file" =>
             /\ destinationFolder # NullFolder
             /\ file.path # DestinationPath("", destinationFolder, file)
                  => \E i \in 1..Len(currentPlan[1].operations) :
                       currentPlan[1].operations[i].sourceFile = file

\* C19 (configuration errors fail fast): the preview store never holds a
\* plan for a rule that is none of the six rules: a generatePreview with an
\* invalid rule produces no plan.
C19_NoPlanForInvalidRule ==
  currentPlan # Null => currentPlan[1].rule \in Rules

\* C20 (conservation): the current plan, in preview or applied, has
\* affectedFiles equal to the number of its operations, and its statistics
\* report that number as totalFiles and the sum of the operations' source
\* file sizes as totalSize.
C20_PlanConservation ==
  currentPlan # Null =>
    LET plan == currentPlan[1]
        n    == Len(plan.operations)
        sum[k \in 0..n] ==
          IF k = 0 THEN 0 ELSE sum[k - 1] + plan.operations[k].sourceFile.size
    IN  /\ plan.affectedFiles = n
        /\ calculatePlanStats(plan).totalFiles = n
        /\ calculatePlanStats(plan).totalSize = sum[n]

\* an applied plan with more operations than folders and a positive total
\* size
C20_Witness ==
  /\ currentPlan # Null
  /\ currentPlan[1].status = "applied"
  /\ Len(currentPlan[1].operations) > Len(currentPlan[1].newFolders)
  /\ calculatePlanStats(currentPlan[1]).totalSize > 0
  /\ currentPlan[1].affectedFiles >= 2

\* C21 (size boundaries): under the thresholds generatePreview plans with,
\* small 1,048,576 and medium 104,857,600, every operation of a bySize plan
\* sends its file to the Small bucket iff size < small, to Medium iff
\* small <= size < medium and to Large iff size >= medium; a file of exactly
\* 1,048,576 bytes goes to Medium and one of 1,048,575 bytes to Small.
C21_SizeBoundaries ==
  (currentPlan # Null /\ currentPlan[1].rule = "bySize")
  => \A i \in 1..Len(currentPlan[1].operations) :
       LET op == currentPlan[1].operations[i]
           s  == op.sourceFile.size
       IN  /\ op.destinationFolder = "Small (< 1 MB)" <=> s < 1048576
           /\ op.destinationFolder = "Medium (1-100 MB)"
                <=> (1048576 <= s /\ s < 104857600)
           /\ op.destinationFolder = "Large (> 100 MB)" <=> s >= 104857600
           /\ s = 1048576 => op.destinationFolder = "Medium (1-100 MB)"
           /\ s = 1048575 => op.destinationFolder = "Small (< 1 MB)"

\* a bySize plan that moves a file of each size next to a threshold
C21_Witness ==
  /\ currentPlan # Null
  /\ currentPlan[1].rule = "bySize"
  /\ \A s \in {1048575, 1048576, 104857600} :
       \E i \in 1..Len(currentPlan[1].operations) :
         currentPlan[1].operations[i].sourceFile.size = s

\* C22 (newFolders): the newFolders of the current plan are exactly the
\* distinct destinationFolder values of its operations, each once, in the
\* order in which they first appear in the operations.
C22_NewFoldersInDiscoveryOrder ==
  currentPlan # Null =>
    LET plan == currentPlan[1]
        ops  == plan.operations
        nf   == plan.newFolders
        First(folder) ==
          CHOOSE i \in 1..Len(ops) :
            /\ ops[i].destinationFolder = folder
            /\ \A j \in 1..(i - 1) : ops[j].destinationFolder # folder
    IN  /\ {nf[k] : k \in 1..Len(nf)}
             = {ops[i].destinationFolder : i \in 1..Len(ops)}
        /\ \A k, l \in 1..Len(nf) : k # l => nf[k] # nf[l]
        /\ \A k, l \in 1..Len(nf) : k < l => First(nf[k]) < First(nf[l])

\* a plan in which a folder is the destination of the first and of the third
\* operation and another folder of the second
C22_Witness ==
  /\ currentPlan # Null
  /\ Len(currentPlan[1].operations) >= 3
  /\ currentPlan[1].operations[1].destinationFolder
       = currentPlan[1].operations[3].destinationFolder
  /\ currentPlan[1].operations[1].destinationFolder
       # currentPlan[1].operations[2].destinationFolder
  /\ Len(currentPlan[1].newFolders) = 2

\* C23 (operation order): the operations of a plan in preview move file
\* nodes only, never folders, each has status pending, and they follow the
\* pre-order of the tree: the operation of f comes before the operation of g
\* exactly when f comes before g in the pre-order traversal, in which a node
\* precedes what is below it and a subtree precedes the subtrees of the
\* siblings after it.
C23_OperationsInPreOrder ==
  (currentPlan # Null /\ currentPlan[1].status = "preview")
  => LET ops == currentPlan[1].operations
         RECURSIVE Subtree(_)
         Subtree(nodes) ==
           UNION { {nodes[i]} \cup Subtree(nodes[i].children) : i \in 1..Len(nodes) }
         RECURSIVE Precedes(_, _, _)
         Precedes(nodes, f, g) ==
           \/ \E i \in 1..Len(nodes) :
                \/ nodes[i] = f /\ g \in Subtree(nodes[i].children)
                \/ Precedes(nodes[i].children, f, g)
           \/ \E i, j \in 1..Len(nodes) :
                /\ i < j
                /\ f \in Subtree(<<nodes[i]>>)
                /\ g \in Subtree(<<nodes[j]>>)
     IN  /\ \A i \in 1..Len(ops) :
              /\ ops[i].sourceFile.type = "file"
              /\ ops[i].sourceFile \in Subtree(files)
              /\ ops[i].status = "pending"
         /\ \A i, j \in 1..Len(ops) :
              i < j <=> Precedes(files, ops[i].sourceFile, ops[j].sourceFile)

\* a preview of the demo tree that moves the file of a nested folder before
\* the file that follows that folder in its parent
C23_Witness ==
  /\ currentPlan # Null
  /\ currentPlan[1].status = "preview"
  /\ Len(currentPlan[1].operations) >= 4
  /\ currentPlan[1].operations[1].sourcePath = "/Downloads/photo.jpg"
  /\ currentPlan[1].operations[2].sourcePath = "/Documents/Work/report.docx"
  /\ currentPlan[1].operations[3].sourcePath = "/Documents/readme.md"

\* C24 (conservation of files): applyPlan of a plan in preview neither loses
\* nor duplicates files: the files of the tree after it are the files of the
\* tree before it, those of the plan's operations at their destinationPath
\* and every other file unchanged, and the tree holds as many file nodes as
\* before.
C24_ApplyConservesFiles ==
  [][ (ApplyPlan /\ currentPlan # Null /\ currentPlan[1].status = "preview")
      => LET ops == currentPlan[1].operations
             FilesOf(tree) ==
               {flattenFileTree(tree)[k] : k \in
                  {n \in 1..Len(flattenFileTree(tree)) :
                     flattenFileTree(tree)[n].type = "file"}}
             Relocated(f) ==
               IF \E i \in 1..Len(ops) : ops[i].sourceFile = f
                 THEN [f EXCEPT !.path =
                         ops[CHOOSE i \in 1..Len(ops) : ops[i].sourceFile = f]
                           .destinationPath]
                 ELSE f
         IN  /\ FilesOf(files') = {Relocated(f) : f \in FilesOf(files)}
             /\ Cardinality({n \in 1..Len(flattenFileTree(files')) :
                               flattenFileTree(files')[n].type = "file"})
                  = Cardinality(FilesOf(files)) ]_vars

\* C25 (undo reverses only its batch): when plans P1 and P2 were applied,
\* P2 planned on the tree P1 produced and the tree still the one P2
\* produced, an undoLast that undoes B2 and leaves B1 not undone leaves the
\* files of B1 at P1's destinations: every entry of B1 has a file at its
\* destinationPath in the tree after the undo.
C25_UndoReversesOnlyItsBatch ==
  [][ ( /\ UndoBatchDone
        /\ Len(history) = 2
        /\ history[1].isUndone
        /\ ~history[2].isUndone
        /\ history[1].entries # <<>>
        /\ \A k \in 1..Len(history[1].entries) :
             /\ \E l \in 1..Len(history[2].entries) :
                  history[1].entries[k].sourcePath
                    = history[2].entries[l].destinationPath
             /\ \E n \in 1..Len(flattenFileTree(files)) :
                  flattenFileTree(files)[n].path
                    = history[1].entries[k].destinationPath )
      => \A l \in 1..Len(history[2].entries) :
           \E n \in 1..Len(flattenFileTree(files')) :
             /\ flattenFileTree(files')[n].type = "file"
             /\ flattenFileTree(files')[n].path
                  = history[2].entries[l].destinationPath ]_vars

\* C26 (frame of undoBatch): undoBatch(id) may be given the id of any batch,
\* whatever its position, and changes that batch only: the ledger keeps its
\* length and its order, the batch with that id becomes undone with all its
\* entries, every other batch is left as it was, and the completion of the
\* call leaves the ledger alone.
C26_UndoBatchFrame ==
  [][ /\ \A batchId \in 1..MaxBatches :
           (DoUndoBatch(batchId, "api") \/ DoUndoBatch(batchId, "chat")
              \/ DoUndoBatch(batchId, "panel"))
           => /\ Len(history') = Len(history)
              /\ \A i \in 1..Len(history) :
                   /\ history'[i].id = history[i].id
                   /\ history[i].id # batchId => history'[i] = history[i]
                   /\ history[i].id = batchId =>
                        /\ history'[i].isUndone
                        /\ \A k \in 1..Len(history'[i].entries) :
                             history'[i].entries[k].isUndone
                        /\ [history'[i] EXCEPT !.isUndone = FALSE,
                              !.entries = [k \in 1..Len(history[i].entries) |->
                                 [history'[i].entries[k] EXCEPT !.isUndone = FALSE]]]
                           = [history[i] EXCEPT !.isUndone = FALSE,
                              !.entries = [k \in 1..Len(history[i].entries) |->
                                 [history[i].entries[k] EXCEPT !.isUndone = FALSE]]]
      /\ UndoBatchDone => history' = history ]_vars

\* undoBatch has undone the older of two batches and left the newer one
C26_Witness ==
  /\ Len(history) = 2
  /\ ~history[1].isUndone
  /\ history[2].isUndone
  /\ history[2].entries # <<>>
  /\ ret = Result("undoBatch", TRUE, FALSE, TRUE)

\* C27 (unique destinations): within the current plan no two operations
\* have the same destinationPath.
C27_UniqueDestinationPath ==
  currentPlan # Null =>
    \A i, j \in 1..Len(currentPlan[1].operations) :
      i # j => currentPlan[1].operations[i].destinationPath
                 # currentPlan[1].operations[j].destinationPath

\* C28 (the preview matches the snapshot): whenever the current plan has
\* status preview, the sourcePath of each of its operations is the path of a
\* file of the current file tree.
C28_PreviewMatchesSnapshot ==
  (currentPlan # Null /\ currentPlan[1].status = "preview")
  => \A i \in 1..Len(currentPlan[1].operations) :
       \E n \in 1..Len(flattenFileTree(files)) :
         /\ flattenFileTree(files)[n].type = "file"
         /\ flattenFileTree(files)[n].path = currentPlan[1].operations[i].sourcePath

\* C29 (init race): a batch that addBatch added while init() was loading
\* the batches, one that is in the persisted store and is not among the
\* batches init's getAll read, is still in the in-memory ledger when init
\* has set what it loaded.
C29_BatchAddedDuringInitKept ==
  [][ InitLoaded
      => \A i \in 1..Len(history) :
           ( /\ \E b \in store : b.id = history[i].id
             /\ \A k \in 1..Len(Head(pending).data) :
                  Head(pending).data[k].id # history[i].id )
           => \E j \in 1..Len(history') : history'[j].id = history[i].id ]_vars

\* C30 (persistence equivalence): when init has completed, no request is in
\* flight and no persistence call failed (every batch ever created was saved
\* to the store), reading the persisted store as a restart does, most recent
\* first, gives the in-memory ledger: the same batches with the same
\* isUndone flags and entries, in the same order.
C30_StoreMatchesLedger ==
  ( /\ isDbInitialized
    /\ opening = 0
    /\ pending = <<>>
    /\ Cardinality(store) = nextBatchId - 1 )
  => getHistoryBatches(store) = history

====
